---------------------------- MODULE Spec2Model ----------------------------
(***************************************************************************)
(* The Record Store of the clinic administration server                    *)
(* (src/server/database.ts): the users, doctors, patients and              *)
(* pending_registrations tables of the embedded SQL database, the file it  *)
(* is saved to, and the exported operations of the registration workflow,  *)
(* of the profiles and of user management; and the patients listing        *)
(* endpoint (src/server/routes/data.ts) that reads the store.  Each        *)
(* exported function is one action: none of them yields between its first *)
(* SQL statement and its return, so a call is atomic in the                *)
(* single-threaded server.                                                 *)
(*                                                                         *)
(* A nullable column holds <<>> (SQL NULL) or <<v>>; an optional argument  *)
(* of a call holds <<>> (undefined) or <<v>>.  A password is a sequence of *)
(* strings: the plaintext <<p>>, its one-way hash <<"bcrypt", p>>.         *)
(* The timestamp columns created_at and updated_at are left out: every     *)
(* statement that writes one writes the clock's value, and no operation    *)
(* reads one.                                                              *)
(***************************************************************************)
EXTENDS Integers, Sequences, FiniteSets, TLC

VARIABLES
    users,          \* rows of table users
    doctors,        \* rows of table doctors
    pending,        \* rows of table pending_registrations
    patients,       \* rows of table patients, where the file holds that table
    seq,            \* sqlite_sequence: the last AUTOINCREMENT id of each table
    disk,           \* the content of healthcare.db as last written
    patientsTable,  \* whether the loaded database file holds a table patients
    last,           \* the last call: its name, what it returned or threw
    res,            \* the last response of the patients listing endpoint
    writable,       \* whether writeFileSync on healthcare.db succeeds
    journal,        \* what the last call that saved wrote to the file, in order
    view,           \* the patient directory page of the client
    filterCall      \* one evaluation of the directory's filter: inputs, result

vars == <<users, doctors, pending, patients, seq, disk, patientsTable, last,
          res, writable, journal, view, filterCall>>

-----------------------------------------------------------------------------
(* Bounds of the model *)

\* ids handed out per table before inserts are no longer attempted
MaxId == 3
-----------------------------------------------------------------------------
(* Values *)

NULL == <<>>

UserRoles == {"admin", "doctor", "customer", "staff"}
\* the user id a caller passes as the reviewer (adminUserId), and the ids
\* passed as the user to suspend, reactivate or delete
ReviewerIds == {1}
UserIds == {1, 2}

\* x || null on a string: undefined and "" become NULL
OrNullStr(o) == IF o = <<>> \/ o = <<"">> THEN NULL ELSE o

\* x || null on a number: undefined and 0 become NULL
OrNullNum(o) == IF o = <<>> \/ o = <<0>> THEN NULL ELSE o

\* bcrypt.hash(password, 10)
bcryptHash(p) == <<"bcrypt">> \o p

\* what a call returned ("true", "false", "number" with its value) or threw
Returned(op, r, v) == [op |-> op, returned |-> r, value |-> v, thrown |-> "none"]
Threw(op, e) == [op |-> op, returned |-> "none", value |-> 0, thrown |-> e]

\* db.export() as written by writeFileSync
Image(u, d, p, pt, s) ==
    [users |-> u, doctors |-> d, pending |-> p, patients |-> pt, seq |-> s]

\* no evaluation of the filter
NoCall == [evaluated |-> FALSE]

\* the page before the component is mounted
Unmounted == [phase |-> "unmounted", shows |-> "nothing", thrown |-> "none"]

\* the endpoint before its first request
NoResponse == [status |-> 0, body |-> [error |-> "none"]]

\* saveDatabase(): the whole database is written to the file
\* writeFileSync once per image, in order; an error of the write is caught
\* inside saveDatabase and only logged
writeFiles(images) ==
    /\ journal' = IF writable THEN images ELSE <<>>
    /\ disk' = IF writable /\ images # <<>> THEN images[Len(images)] ELSE disk

saveDatabase(u, d, p, pt, s) == writeFiles(<<Image(u, d, p, pt, s)>>)

-----------------------------------------------------------------------------
(* Table constraints *)

\* users: username UNIQUE, email UNIQUE, CHECK(role IN (...))
UsersConstraintOk(row) ==
    /\ \A u \in users : u.username # row.username /\ u.email # row.email
    /\ row.role \in UserRoles

\* doctors: license_number UNIQUE (NULLs are distinct in SQLite)
DoctorsConstraintOk(ds, row) ==
    \/ row.license_number = NULL
    \/ \A d \in ds : d.license_number # row.license_number

\* pending_registrations: email UNIQUE
PendingConstraintOk(row) ==
    \A r \in pending : r.email # row.email


-----------------------------------------------------------------------------
(* Arguments the callers pass *)

FullNameOf(u) == IF u = "u1" THEN "Ann One" ELSE "Bob Two"
PhoneOf(u) == IF u = "u1" THEN <<"555">> ELSE <<"">>

\* a PendingRegistration as submitted by a doctor or by a staff member
DoctorRegistration(u, e, lic) ==
    [username |-> u, email |-> e, password |-> <<"pw">>, role |-> "doctor",
     full_name |-> FullNameOf(u), phone |-> PhoneOf(u),
     specialization |-> <<"cardiology">>, license_number |-> lic,
     experience_years |-> IF u = "u1" THEN <<5>> ELSE <<0>>,
     consultation_fee |-> IF u = "u1" THEN <<100>> ELSE <<>>,
     available_days |-> <<"Mon,Tue">>, available_time_start |-> <<"09:00">>,
     available_time_end |-> <<"">>, department |-> <<>>, employee_id |-> <<>>]

StaffRegistration(u, e) ==
    [username |-> u, email |-> e, password |-> <<"pw">>, role |-> "staff",
     full_name |-> FullNameOf(u), phone |-> PhoneOf(u),
     specialization |-> <<>>, license_number |-> <<>>,
     experience_years |-> <<>>, consultation_fee |-> <<>>,
     available_days |-> <<>>, available_time_start |-> <<>>,
     available_time_end |-> <<>>, department |-> <<"frontdesk">>,
     employee_id |-> <<"">>]

\* the registrations submitted: two doctors with the same licence, and a
\* staff member
Registrations ==
    {DoctorRegistration("u1", "e1", <<"L1">>),
     DoctorRegistration("u2", "e2", <<"L1">>),
     StaffRegistration("u2", "e2")}

\* the Users passed to createUser: a customer signing up directly, and the
\* administrator
Customer ==
    [username |-> "u1", email |-> "e1", password |-> <<"pw">>,
     role |-> "customer", full_name |-> FullNameOf("u1"),
     phone |-> PhoneOf("u1")]

Administrator ==
    [username |-> "root", email |-> "r0", password |-> <<"pw">>,
     role |-> "admin", full_name |-> "Root", phone |-> <<"555">>]

\* a Patient profile for a user id; of the sixteen columns createPatient
\* writes, the seven that getAllPatients reads back
Patient(userId) ==
    [user_id |-> userId, date_of_birth |-> <<"1990-05-17">>,
     gender |-> <<"male">>, blood_group |-> <<"">>, address |-> <<>>,
     medical_conditions |-> <<"asthma">>, height |-> <<0>>,
     weight |-> <<70>>]

\* a Doctor profile handed to createDoctor directly
Doctor(userId) ==
    [user_id |-> userId, specialization |-> <<"surgery">>,
     license_number |-> <<"L2">>, experience_years |-> <<>>,
     consultation_fee |-> <<>>, available_days |-> <<>>,
     available_time_start |-> <<>>, available_time_end |-> <<>>]

\* requests reaching the patients listing endpoint: req.user is what the
\* authentication middleware has set, if it has
Requests ==
    {[user |-> <<>>]} \cup {[user |-> <<[role |-> r]>>] : r \in UserRoles}

\* adminNotes of approve (optional) and of reject
ApproveNotes == {<<"">>, <<"ok">>}
RejectNotes == {"", "no licence"}

-----------------------------------------------------------------------------
(* Rows the statements write *)

\* INSERT INTO users of createUser: the password is hashed first
CreatedUserRow(user, id) ==
    [id |-> id, username |-> user.username, email |-> user.email,
     password |-> bcryptHash(user.password), role |-> user.role,
     full_name |-> user.full_name, phone |-> OrNullStr(user.phone),
     status |-> "active"]

\* INSERT INTO pending_registrations of createPendingRegistration
PendingRow(registration, id) ==
    [id |-> id, username |-> registration.username,
     email |-> registration.email,
     password |-> bcryptHash(registration.password),
     role |-> registration.role, full_name |-> registration.full_name,
     phone |-> OrNullStr(registration.phone),
     status |-> "pending", admin_notes |-> NULL, approved_by |-> NULL,
     specialization |-> OrNullStr(registration.specialization),
     license_number |-> OrNullStr(registration.license_number),
     experience_years |-> OrNullNum(registration.experience_years),
     consultation_fee |-> OrNullNum(registration.consultation_fee),
     available_days |-> OrNullStr(registration.available_days),
     available_time_start |-> OrNullStr(registration.available_time_start),
     available_time_end |-> OrNullStr(registration.available_time_end),
     department |-> OrNullStr(registration.department),
     employee_id |-> OrNullStr(registration.employee_id)]

\* the INSERT hashing the staged password a second time
ApprovedUserRowRehashed(registration, id) ==
    [id |-> id, username |-> registration.username,
     email |-> registration.email,
     password |-> bcryptHash(registration.password),
     role |-> registration.role, full_name |-> registration.full_name,
     phone |-> OrNullStr(registration.phone), status |-> "active"]

\* INSERT INTO users of approvePendingRegistration: the staged password as is
ApprovedUserRow(registration, id) ==
    [id |-> id, username |-> registration.username,
     email |-> registration.email, password |-> registration.password,
     role |-> registration.role, full_name |-> registration.full_name,
     phone |-> OrNullStr(registration.phone), status |-> "active"]

\* the Doctor keyed by the registration's id instead of the new user's
StagedDoctorOfPendingId(registration, userId) ==
    [user_id |-> registration.id,
     specialization |-> registration.specialization,
     license_number |-> registration.license_number,
     experience_years |-> registration.experience_years,
     consultation_fee |-> registration.consultation_fee,
     available_days |-> registration.available_days,
     available_time_start |-> registration.available_time_start,
     available_time_end |-> registration.available_time_end]

\* the Doctor approvePendingRegistration hands to createDoctor
StagedDoctor(registration, userId) ==
    [user_id |-> userId, specialization |-> registration.specialization,
     license_number |-> registration.license_number,
     experience_years |-> registration.experience_years,
     consultation_fee |-> registration.consultation_fee,
     available_days |-> registration.available_days,
     available_time_start |-> registration.available_time_start,
     available_time_end |-> registration.available_time_end]

\* INSERT INTO doctors of createDoctor
DoctorRow(doctor, id) ==
    [id |-> id, user_id |-> doctor.user_id,
     specialization |-> OrNullStr(doctor.specialization),
     license_number |-> OrNullStr(doctor.license_number),
     experience_years |-> OrNullNum(doctor.experience_years),
     consultation_fee |-> OrNullNum(doctor.consultation_fee),
     available_days |-> OrNullStr(doctor.available_days),
     available_time_start |-> OrNullStr(doctor.available_time_start),
     available_time_end |-> OrNullStr(doctor.available_time_end)]

\* INSERT INTO patients of createPatient
PatientRow(patient, id) ==
    [id |-> id, user_id |-> patient.user_id,
     date_of_birth |-> OrNullStr(patient.date_of_birth),
     gender |-> OrNullStr(patient.gender),
     blood_group |-> OrNullStr(patient.blood_group),
     address |-> OrNullStr(patient.address),
     medical_conditions |-> OrNullStr(patient.medical_conditions),
     height |-> OrNullNum(patient.height),
     weight |-> OrNullNum(patient.weight)]

\* UPDATE pending_registrations SET status = 'approved', ... of approve
ApprovedRow(r, adminUserId, adminNotes) ==
    [r EXCEPT !.status = "approved", !.approved_by = <<adminUserId>>,
              !.admin_notes = OrNullStr(adminNotes)]

\* UPDATE pending_registrations SET status = 'rejected', ... of reject
RejectedRow(r, adminUserId, adminNotes) ==
    [r EXCEPT !.status = "rejected", !.approved_by = <<adminUserId>>,
              !.admin_notes = <<adminNotes>>]

-----------------------------------------------------------------------------
(* The database after construction *)

Init ==
    /\ users = {}
    /\ doctors = {}
    /\ pending = {}
    /\ patients = {}
    /\ seq = [users |-> 0, doctors |-> 0, pending |-> 0, patients |-> 0]
    /\ disk = Image({}, {}, {}, {}, seq)
    /\ writable = TRUE
    /\ journal = <<>>
    /\ view = Unmounted
    /\ filterCall = NoCall
    /\ patientsTable \in BOOLEAN
    /\ last = Returned("initDatabase", "none", 0)
    /\ res = NoResponse

-----------------------------------------------------------------------------
(* Operations *)

createUser(user) ==
    LET userId == seq.users + 1
        row == CreatedUserRow(user, userId)
    IN  /\ seq.users < MaxId
        /\ IF UsersConstraintOk(row)
           THEN /\ users' = users \cup {row}
                /\ seq' = [seq EXCEPT !.users = userId]
                /\ saveDatabase(users', doctors, pending, patients, seq')
                /\ last' = Returned("createUser", "number", userId)
           ELSE /\ last' = Threw("createUser", "SQLITE_CONSTRAINT")
                /\ UNCHANGED <<users, seq, disk, journal>>
        /\ UNCHANGED <<doctors, pending, patients, patientsTable, res, writable, view, filterCall>>

createPendingRegistration(registration) ==
    LET pendingId == seq.pending + 1
        row == PendingRow(registration, pendingId)
    IN  /\ seq.pending < MaxId
        /\ IF PendingConstraintOk(row)
           THEN /\ pending' = pending \cup {row}
                /\ seq' = [seq EXCEPT !.pending = pendingId]
                /\ saveDatabase(users, doctors, pending', patients, seq')
                /\ last' = Returned("createPendingRegistration", "number",
                                    pendingId)
           ELSE /\ last' = Threw("createPendingRegistration",
                                 "SQLITE_CONSTRAINT")
                /\ UNCHANGED <<pending, seq, disk, journal>>
        /\ UNCHANGED <<users, doctors, patients, patientsTable, res, writable, view, filterCall>>

\* createDoctor(doctor) on doctors table ds: the table, the sequence and the
\* file after it, and whether the INSERT threw
createDoctor(ds, s, doctor) ==
    LET doctorId == s.doctors + 1
        row == DoctorRow(doctor, doctorId)
    IN  IF DoctorsConstraintOk(ds, row)
        THEN [thrown |-> "none", doctors |-> ds \cup {row},
              seq |-> [s EXCEPT !.doctors = doctorId], saved |-> TRUE]
        ELSE [thrown |-> "SQLITE_CONSTRAINT", doctors |-> ds, seq |-> s,
              saved |-> FALSE]

\* the missing row reported as a success, as an UPDATE of no row would be
ApproveNotFoundReturnsTrue ==
    Returned("approvePendingRegistration", "true", 0)

\* approvePendingRegistration when the SELECT by id returns no row
ApproveNotFound ==
    Threw("approvePendingRegistration", "Pending registration not found")

approvePendingRegistration(pendingId, adminUserId, adminNotes) ==
    LET result == {r \in pending : r.id = pendingId}
    IN  /\ IF result = {}
           THEN /\ last' = ApproveNotFound
                /\ UNCHANGED <<users, doctors, pending, seq, disk, journal>>
           ELSE LET registration == CHOOSE r \in result : TRUE
                    userId == seq.users + 1
                    userRow == ApprovedUserRow(registration, userId)
                    seq1 == [seq EXCEPT !.users = userId]
                    made == IF registration.role = "doctor"
                            THEN createDoctor(doctors, seq1,
                                     StagedDoctor(registration, userId))
                            ELSE [thrown |-> "none", doctors |-> doctors,
                                  seq |-> seq1, saved |-> FALSE]
                IN  /\ seq.users < MaxId
                    /\ seq.doctors < MaxId
                    /\ IF ~UsersConstraintOk(userRow)
                       THEN /\ last' = Threw("approvePendingRegistration",
                                             "SQLITE_CONSTRAINT")
                            /\ UNCHANGED <<users, doctors, pending, seq, disk, journal>>
                       ELSE IF made.thrown # "none"
                       THEN \* the users row stays, nothing is written to disk
                            /\ users' = users \cup {userRow}
                            /\ seq' = seq1
                            /\ last' = Threw("approvePendingRegistration",
                                             made.thrown)
                            /\ UNCHANGED <<doctors, pending, disk, journal>>
                       ELSE /\ users' = users \cup {userRow}
                            /\ doctors' = made.doctors
                            /\ seq' = made.seq
                            /\ pending' = (pending \ result) \cup
                                   {ApprovedRow(registration, adminUserId,
                                                adminNotes)}
                            /\ writeFiles(
                                   IF made.saved
                                   THEN <<Image(users', made.doctors, pending,
                                                patients, made.seq),
                                          Image(users', doctors', pending',
                                                patients, seq')>>
                                   ELSE <<Image(users', doctors', pending',
                                                patients, seq')>>)
                            /\ last' = Returned("approvePendingRegistration",
                                                "true", 0)
        /\ UNCHANGED <<patients, patientsTable, res, writable, view, filterCall>>

\* the UPDATE without its WHERE id = ?
rejectEveryRegistration(pendingId, adminUserId, adminNotes) ==
    /\ pending' = {RejectedRow(r, adminUserId, adminNotes) : r \in pending}
    /\ saveDatabase(users, doctors, pending', patients, seq)
    /\ last' = Returned("rejectPendingRegistration", "true", 0)
    /\ UNCHANGED <<users, doctors, patients, seq, patientsTable, res, writable, view, filterCall>>

rejectPendingRegistration(pendingId, adminUserId, adminNotes) ==
    /\ pending' = {IF r.id = pendingId
                   THEN RejectedRow(r, adminUserId, adminNotes)
                   ELSE r : r \in pending}
    /\ saveDatabase(users, doctors, pending', patients, seq)
    /\ last' = Returned("rejectPendingRegistration", "true", 0)
    /\ UNCHANGED <<users, doctors, patients, seq, patientsTable, res, writable, view, filterCall>>

\* the UPDATE without AND role != 'admin'
SetStatusAnyRole(userId, status) ==
    {IF u.id = userId THEN [u EXCEPT !.status = status] ELSE u : u \in users}

\* UPDATE users SET status = ... WHERE id = ? AND role != 'admin'
SetStatus(userId, status) ==
    {IF u.id = userId /\ u.role # "admin"
     THEN [u EXCEPT !.status = status] ELSE u : u \in users}

suspendUser(userId) ==
    /\ users' = SetStatus(userId, "suspended")
    /\ saveDatabase(users', doctors, pending, patients, seq)
    /\ last' = Returned("suspendUser", "true", 0)
    /\ UNCHANGED <<doctors, pending, patients, seq, patientsTable, res, writable, view, filterCall>>

reactivateUser(userId) ==
    /\ users' = SetStatus(userId, "active")
    /\ saveDatabase(users', doctors, pending, patients, seq)
    /\ last' = Returned("reactivateUser", "true", 0)
    /\ UNCHANGED <<doctors, pending, patients, seq, patientsTable, res, writable, view, filterCall>>

\* the users row deleted before the profile rows
deleteUserUsersFirst(userId) ==
    /\ IF \E u \in users : u.id = userId /\ u.role = "admin"
       THEN /\ last' = Returned("deleteUser", "false", 0)
            /\ UNCHANGED <<users, doctors, patients, disk, journal>>
       ELSE IF ~patientsTable
       THEN /\ users' = {u \in users : ~(u.id = userId /\ u.role # "admin")}
            /\ last' = Returned("deleteUser", "false", 0)
            /\ UNCHANGED <<doctors, patients, disk, journal>>
       ELSE /\ users' = {u \in users : ~(u.id = userId /\ u.role # "admin")}
            /\ patients' = {p \in patients : p.user_id # userId}
            /\ doctors' = {d \in doctors : d.user_id # userId}
            /\ saveDatabase(users', doctors', pending, patients', seq)
            /\ last' = Returned("deleteUser", "true", 0)
    /\ UNCHANGED <<pending, seq, patientsTable, res, writable, view, filterCall>>

deleteUser(userId) ==
    /\ IF \E u \in users : u.id = userId /\ u.role = "admin"
       THEN \* "Cannot delete admin user" is caught
            /\ last' = Returned("deleteUser", "false", 0)
            /\ UNCHANGED <<users, doctors, patients, disk, journal>>
       ELSE IF ~patientsTable
       THEN \* DELETE FROM patients throws: no such table
            /\ last' = Returned("deleteUser", "false", 0)
            /\ UNCHANGED <<users, doctors, patients, disk, journal>>
       ELSE /\ patients' = {p \in patients : p.user_id # userId}
            /\ doctors' = {d \in doctors : d.user_id # userId}
            /\ users' = {u \in users : ~(u.id = userId /\ u.role # "admin")}
            /\ saveDatabase(users', doctors', pending, patients', seq)
            /\ last' = Returned("deleteUser", "true", 0)
    /\ UNCHANGED <<pending, seq, patientsTable, res, writable, view, filterCall>>

\* createPatient: the INSERT names table patients, which createTables never
\* creates; without it db.prepare throws and the error is rethrown
createPatient(patient) ==
    LET patientId == seq.patients + 1
        row == PatientRow(patient, patientId)
    IN  /\ seq.patients < MaxId
        /\ IF patientsTable
           THEN /\ patients' = patients \cup {row}
                /\ seq' = [seq EXCEPT !.patients = patientId]
                /\ saveDatabase(users, doctors, pending, patients', seq')
                /\ last' = Returned("createPatient", "number", patientId)
           ELSE /\ last' = Threw("createPatient", "no such table: patients")
                /\ UNCHANGED <<patients, seq, disk, journal>>
        /\ UNCHANGED <<users, doctors, pending, patientsTable, res, writable, view, filterCall>>

\* createDoctor called on its own, as the exported function it is
createDoctorCall(doctor) ==
    LET made == createDoctor(doctors, seq, doctor)
    IN  /\ seq.doctors < MaxId
        /\ IF made.thrown = "none"
           THEN /\ doctors' = made.doctors
                /\ seq' = made.seq
                /\ saveDatabase(users, doctors', pending, patients, seq')
                /\ last' = Returned("createDoctor", "number", seq'.doctors)
           ELSE /\ last' = Threw("createDoctor", made.thrown)
                /\ UNCHANGED <<doctors, seq, disk, journal>>
        /\ UNCHANGED <<users, pending, patients, patientsTable, res, writable, view, filterCall>>

\* ORDER BY u.full_name under the BINARY collation, for the names in use
CollationRank(name) ==
    CASE name = "Ann One" -> 1
      [] name = "Bob Two" -> 2
      [] OTHER -> 3

\* one object of the list getAllPatients returns: the selected columns
PatientRecord(u, p) ==
    [user_id |-> u.id, full_name |-> u.full_name, email |-> u.email,
     phone |-> u.phone, date_of_birth |-> p.date_of_birth,
     gender |-> p.gender, blood_group |-> p.blood_group,
     address |-> p.address, medical_conditions |-> p.medical_conditions,
     height |-> p.height, weight |-> p.weight]

\* getAllPatients(): the lists it can return.  FROM users u JOIN patients p
\* ON u.id = p.user_id ORDER BY u.full_name; rows of equal name come in an
\* order SQL leaves open.  Any error of the query is caught and [] returned.
getAllPatients ==
    IF ~patientsTable THEN {<<>>}
    ELSE LET joined == {p \in patients : \E u \in users : u.id = p.user_id}
             UserOf(p) == CHOOSE u \in users : u.id = p.user_id
             n == Cardinality(joined)
             orders == {f \in [1..n -> joined] :
                          /\ \A i, j \in 1..n : i # j => f[i] # f[j]
                          /\ \A i, j \in 1..n :
                                 i < j => CollationRank(UserOf(f[i]).full_name)
                                          <= CollationRank(UserOf(f[j]).full_name)}
         IN  {[i \in 1..n |-> PatientRecord(UserOf(f[i]), f[i])] : f \in orders}

\* the handler querying the store before it looks at the role
handleGetPatientsQueryFirst(req) ==
    \E list \in getAllPatients :
        /\ last' = Returned("getAllPatients", "list", Len(list))
        /\ IF req.user = <<>>
           THEN res' = [status |-> 500, body |->
                   [error |-> "Internal server error while fetching patients"]]
           ELSE IF req.user[1].role # "doctor" /\ req.user[1].role # "admin"
           THEN res' = [status |-> 403, body |->
                   [error |-> "Unauthorized to view patients list"]]
           ELSE res' = [status |-> 200, body |->
                   [patients |-> list, total |-> Len(list)]]
        /\ UNCHANGED <<users, doctors, pending, patients, seq, disk,
                       patientsTable, writable, journal, view, filterCall>>

\* the patients listing endpoint
handleGetPatients(req) ==
    /\ IF req.user = <<>>
       THEN \* destructuring undefined throws: the catch answers 500
            /\ res' = [status |-> 500, body |->
                   [error |-> "Internal server error while fetching patients"]]
            /\ UNCHANGED last
       ELSE IF req.user[1].role # "doctor" /\ req.user[1].role # "admin"
       THEN /\ res' = [status |-> 403, body |->
                   [error |-> "Unauthorized to view patients list"]]
            /\ UNCHANGED last
       ELSE \E list \in getAllPatients :
                /\ res' = [status |-> 200, body |->
                       [patients |-> list, total |-> Len(list)]]
                /\ last' = Returned("getAllPatients", "list", Len(list))
    /\ UNCHANGED <<users, doctors, pending, patients, seq, disk, patientsTable,
                   writable, journal, view, filterCall>>

-----------------------------------------------------------------------------
(* The patient directory page (src/unnamed/part_000).  A string that is     *)
(* searched is a sequence of characters; an optional field of a profile is *)
(* <<>> (absent) or <<v>>; a date is its local year, month and day; an     *)
(* instant is counted in seconds.                                          *)

\* JavaScript truthiness of an optional string: absent and "" are falsy
Truthy(o) == o # <<>> /\ o[1] # <<>>

\* String.prototype.toLowerCase, on the letters in use
toLowerCase(str) ==
    [i \in 1..Len(str) |->
        CASE str[i] = "A" -> "a"
          [] str[i] = "B" -> "b"
          [] OTHER -> str[i]]

\* String.prototype.includes
includes(str, search) ==
    \E i \in 0..(Len(str) - Len(search)) :
        SubSeq(str, i + 1, i + Len(search)) = search

\* String.prototype.trim, for the blank " "
RECURSIVE trim(_)
trim(str) ==
    IF str = <<>> THEN str
    ELSE IF Head(str) = " " THEN trim(Tail(str))
    ELSE IF str[Len(str)] = " " THEN trim(SubSeq(str, 1, Len(str) - 1))
    ELSE str

\* the search term compared as typed, without toLowerCase
matchesSearchAsTyped(patient, searchTerm) ==
    \/ includes(toLowerCase(patient.full_name), searchTerm)
    \/ includes(toLowerCase(patient.email), searchTerm)
    \/ Truthy(patient.phone) /\ includes(patient.phone[1], searchTerm)

\* const matchesSearch = ... (truthy or falsy)
matchesSearch(patient, searchTerm) ==
    \/ includes(toLowerCase(patient.full_name), toLowerCase(searchTerm))
    \/ includes(toLowerCase(patient.email), toLowerCase(searchTerm))
    \/ Truthy(patient.phone) /\ includes(patient.phone[1], searchTerm)

\* calculateAge(dateOfBirth) for a date of birth that is given
calculateAge(today, birth) ==
    LET age == today.year - birth.year
        monthDiff == today.month - birth.month
    IN  IF monthDiff < 0 \/ (monthDiff = 0 /\ today.date < birth.date)
        THEN age - 1
        ELSE age

\* the lines of the component on which the filter's callback runs and on
\* which const calculateAge is initialised
FilterRunsAt == 110
CalculateAgeInitialisedAt == 208

\* switch (filters.ageRange): whether the record is kept
InAgeRange(age, ageRange) ==
    CASE ageRange = "0-18" -> ~(age > 18)
      [] ageRange = "19-30" -> ~(age < 19 \/ age > 30)
      [] ageRange = "31-50" -> ~(age < 31 \/ age > 50)
      [] ageRange = "51+" -> ~(age < 51)
      [] OTHER -> TRUE

\* 1000 * 60 * 60 * 24 milliseconds, in seconds
DayLength == 86400

\* the elapsed days rounded down instead of up
diffDaysFloor(now, created) ==
    LET diffTime == IF now >= created THEN now - created ELSE created - now
    IN  diffTime \div DayLength

\* diffDays: Math.ceil(Math.abs(now - registrationDate) / one day)
diffDays(now, created) ==
    LET diffTime == IF now >= created THEN now - created ELSE created - now
    IN  (diffTime + DayLength - 1) \div DayLength

\* the buckets as ranges that exclude one another
InRegistrationPeriodBetween(days, period) ==
    CASE period = "last-week" -> ~(days > 7)
      [] period = "last-month" -> ~(days > 30) /\ days > 7
      [] period = "last-3-months" -> ~(days > 90) /\ days > 30
      [] period = "last-year" -> ~(days > 365) /\ days > 90
      [] OTHER -> TRUE

\* switch (filters.registrationPeriod): whether the record is kept
InRegistrationPeriod(days, period) ==
    CASE period = "last-week" -> ~(days > 7)
      [] period = "last-month" -> ~(days > 30)
      [] period = "last-3-months" -> ~(days > 90)
      [] period = "last-year" -> ~(days > 365)
      [] OTHER -> TRUE

\* const hasConditions = patient.medical_conditions && ....trim() !== ""
hasConditions(patient) ==
    /\ Truthy(patient.medical_conditions)
    /\ trim(patient.medical_conditions[1]) # <<>>

\* the callback of patients.filter: "true", "false", or the error it throws.
\* It runs on line 110, before const calculateAge of line 208 is
\* initialised: the call of calculateAge throws a ReferenceError.
callback(patient, searchTerm, filters, now) ==
    IF ~matchesSearch(patient, searchTerm) THEN "false"
    ELSE IF filters.gender # "all" /\ patient.gender # <<filters.gender>>
    THEN "false"
    ELSE IF /\ filters.bloodGroup # "all"
            /\ patient.blood_group # <<filters.bloodGroup>>
    THEN "false"
    ELSE IF /\ filters.ageRange # "all"
            /\ patient.date_of_birth # <<>>
            /\ CalculateAgeInitialisedAt > FilterRunsAt
    THEN "ReferenceError"
    ELSE IF /\ filters.ageRange # "all"
            /\ ~InAgeRange(IF patient.date_of_birth # <<>>
                           THEN calculateAge(now.today,
                                             patient.date_of_birth[1])
                           ELSE 0, filters.ageRange)
    THEN "false"
    ELSE IF /\ filters.hasConditions = "yes"
            /\ ~hasConditions(patient)
    THEN "false"
    ELSE IF /\ filters.hasConditions = "no"
            /\ hasConditions(patient)
    THEN "false"
    ELSE IF /\ filters.registrationPeriod # "all"
            /\ ~InRegistrationPeriod(diffDays(now.time, patient.created_at),
                                     filters.registrationPeriod)
    THEN "false"
    ELSE "true"

\* Array.prototype.filter with the callback: the kept records in their
\* order, or the error of the first callback that throws
filter(list, searchTerm, filters, now) ==
    LET Kept(patient) == callback(patient, searchTerm, filters, now) = "true"
        thrown == {i \in 1..Len(list) :
                     callback(list[i], searchTerm, filters, now)
                         \notin {"true", "false"}}
    IN  IF thrown # {}
        THEN [thrown |-> "ReferenceError", value |-> <<>>]
        ELSE [thrown |-> "none", value |-> SelectSeq(list, Kept)]

\* the longest list of profiles that is filtered
MaxListLen == 3

\* new Date() in the callback: the instant, and its local calendar day
Now == [time |-> 400 * DayLength,
        today |-> [year |-> 2024, month |-> 6, date |-> 15]]

\* a profile registered two days ago with only the required fields
\* (interface Customer; address, which no predicate reads, is left out)
BaseProfile ==
    [full_name |-> <<"A", "b">>, email |-> <<"a", "@">>, phone |-> NULL,
     date_of_birth |-> NULL, gender |-> <<"male">>, blood_group |-> <<"O+">>,
     medical_conditions |-> <<<<>>>>,
     created_at |-> Now.time - 2 * DayLength]

\* created_at of the profiles: days before now (one after it), and one second
\* more than seven days
CreatedAts ==
    {Now.time - d * DayLength : d \in {0, 3, 7, 8, 30, 31, 90, 365, 366, -1}}
        \cup {Now.time - 7 * DayLength - 1}

\* date_of_birth of the profiles: 18 years before today, one day more,
\* one day less, a later month, and 19, 31, 51 years
BirthDates ==
    {[year |-> 2006, month |-> 6, date |-> 15],
     [year |-> 2006, month |-> 6, date |-> 14],
     [year |-> 2006, month |-> 6, date |-> 16],
     [year |-> 2006, month |-> 7, date |-> 1],
     [year |-> 2005, month |-> 6, date |-> 15],
     [year |-> 1993, month |-> 6, date |-> 15],
     [year |-> 1973, month |-> 6, date |-> 15]}

\* the profile of a woman registered 40 days ago, and one with a phone only
SecondProfile ==
    [BaseProfile EXCEPT !.full_name = <<"B">>, !.email = <<"B", "@">>,
                        !.gender = <<"female">>, !.blood_group = <<"AB-">>,
                        !.medical_conditions = <<<<"x">>>>,
                        !.created_at = Now.time - 40 * DayLength]
PhoneProfile ==
    [BaseProfile EXCEPT !.full_name = <<"A">>, !.phone = <<<<"B", "5">>>>,
                        !.gender = NULL, !.blood_group = NULL]

\* the profiles that are filtered
Profiles ==
    {BaseProfile, SecondProfile, PhoneProfile}
        \cup {[BaseProfile EXCEPT !.created_at = c] : c \in CreatedAts}
        \cup {[BaseProfile EXCEPT !.date_of_birth = <<b>>] : b \in BirthDates}
        \cup {[BaseProfile EXCEPT !.medical_conditions = m] :
                 m \in {NULL, <<<<" ">>>>, <<<<" ", "x", " ">>>>}}

\* the profiles of the longer lists
ListedProfiles ==
    {BaseProfile, SecondProfile, PhoneProfile,
     [BaseProfile EXCEPT !.date_of_birth =
                             <<[year |-> 2005, month |-> 6, date |-> 15]>>]}

\* the lists that are filtered: every profile alone, and the lists of the
\* listed profiles
ProfileLists ==
    {<<p>> : p \in Profiles}
        \cup UNION {[1..n -> ListedProfiles] : n \in 0..MaxListLen}

\* what is typed into the search box
SearchTerms ==
    {<<>>, <<"a">>, <<"A">>, <<"b">>, <<"B">>, <<"5">>, <<"a", "B">>}

\* useState<FilterState>: no filter is active
AllFilters ==
    [gender |-> "all", bloodGroup |-> "all", ageRange |-> "all",
     hasConditions |-> "all", registrationPeriod |-> "all"]

AgeRanges == {"0-18", "19-30", "31-50", "51+"}
RegistrationPeriods == {"last-week", "last-month", "last-3-months", "last-year"}

\* the filter specifications: none, each option alone, and two conjunctions
FilterSpecs ==
    {AllFilters}
        \cup {[AllFilters EXCEPT !.gender = g] : g \in {"male", "female"}}
        \cup {[AllFilters EXCEPT !.bloodGroup = g] : g \in {"O+", "AB-"}}
        \cup {[AllFilters EXCEPT !.ageRange = r] : r \in AgeRanges}
        \cup {[AllFilters EXCEPT !.hasConditions = h] : h \in {"yes", "no"}}
        \cup {[AllFilters EXCEPT !.registrationPeriod = r] :
                 r \in RegistrationPeriods}
        \cup {[AllFilters EXCEPT !.gender = "male", !.hasConditions = "no"],
               [AllFilters EXCEPT !.gender = "male",
                                  !.registrationPeriod = "last-month"]}

\* one evaluation of the filter: a list with a search term and no filter, or
\* with a filter specification and the term empty or "a"
evaluateFilter(list, searchTerm, filters) ==
    /\ ~filterCall.evaluated
    /\ filterCall' = [evaluated |-> TRUE, list |-> list,
                      searchTerm |-> searchTerm, filters |-> filters,
                      result |-> filter(list, searchTerm, filters, Now)]
    /\ UNCHANGED <<users, doctors, pending, patients, seq, disk, patientsTable,
                   last, res, writable, journal, view>>

FilterInit == Init

FilterNext ==
    /\ ~filterCall.evaluated
    /\ \E list \in ProfileLists :
          \/ \E searchTerm \in SearchTerms :
                 evaluateFilter(list, searchTerm, AllFilters)
          \/ \E filters \in FilterSpecs, searchTerm \in {<<>>, <<"a">>} :
                 evaluateFilter(list, searchTerm, filters)

\* the filter of the directory page applied once to a list
FilterSpec == FilterInit /\ [][FilterNext]_vars

\* the state of the component when it is first rendered (useState)
InitialState ==
    [customers |-> <<>>, loading |-> TRUE, searchTerm |-> <<>>,
     selectedCustomer |-> NULL, filterOpen |-> FALSE, filters |-> AllFilters]

\* the value of an identifier in the body of the component: the state
\* variables are the names bound there; any other name is unbound
Resolve(state, name) ==
    IF name \in DOMAIN state
    THEN [thrown |-> "none", value |-> state[name]]
    ELSE [thrown |-> "ReferenceError", value |-> <<>>]

\* one execution of the function component: the error it throws, or what
\* it returns: the spinner, the rows of the filtered list, or the
\* empty-state message
CustomersManagement(state) ==
    LET list == Resolve(state, "patients")
        filteredPatients ==
            filter(list.value, state.searchTerm, state.filters, Now)
    IN  IF list.thrown # "none"
        THEN [thrown |-> list.thrown, shows |-> "nothing"]
        ELSE IF filteredPatients.thrown # "none"
        THEN [thrown |-> filteredPatients.thrown, shows |-> "nothing"]
        ELSE IF state.loading
        THEN [thrown |-> "none", shows |-> "spinner"]
        ELSE IF Len(filteredPatients.value) > 0
        THEN [thrown |-> "none", shows |-> "rows"]
        ELSE [thrown |-> "none", shows |-> "No patients found"]

\* how the fetch of the directory can end: a 2xx response with its body, a
\* response that is not ok, a rejected promise
FetchOutcomes(bodies) ==
    {[kind |-> "ok", body |-> b] : b \in bodies}
        \cup {[kind |-> "not ok", body |-> [error |-> "refused"]],
               [kind |-> "network error", body |-> [error |-> "none"]]}

\* the state after fetchCustomers has run to its end on the outcome
fetchCustomers(state, outcome) ==
    IF outcome.kind = "ok"
    THEN [state EXCEPT
              !.customers = IF "customers" \in DOMAIN outcome.body
                            THEN outcome.body.customers
                            ELSE <<>>,
              !.loading = FALSE]
    ELSE [state EXCEPT !.loading = FALSE]

\* the page is opened: the component is rendered for the first time; where
\* that throws nothing is mounted and the effect (fetchCustomers) never runs
mount ==
    /\ view.phase = "unmounted"
    /\ LET first == CustomersManagement(InitialState)
       IN  view' = IF first.thrown # "none"
                   THEN [phase |-> "crashed", shows |-> first.shows,
                         thrown |-> first.thrown]
                   ELSE [phase |-> "fetching", shows |-> first.shows,
                         thrown |-> "none"]
    /\ UNCHANGED <<users, doctors, pending, patients, seq, disk, patientsTable,
                   last, res, writable, journal, filterCall>>

\* the patients listing endpoint with its store, and the page that reads it
ViewNext ==
    \/ createUser(Customer)
    \/ \E userId \in UserIds : createPatient(Patient(userId))
    \/ \E req \in Requests : handleGetPatients(req)
    \/ mount

ViewSpec == Init /\ [][ViewNext]_vars

\* the registration workflow, with direct signups and deletions in between
Next ==
    \/ createUser(Customer)
    \/ \E registration \in Registrations :
           createPendingRegistration(registration)
    \/ \E pendingId \in 1..MaxId, adminUserId \in ReviewerIds,
          adminNotes \in ApproveNotes :
           approvePendingRegistration(pendingId, adminUserId, adminNotes)
    \/ \E pendingId \in 1..MaxId, adminUserId \in ReviewerIds,
          adminNotes \in RejectNotes :
           rejectPendingRegistration(pendingId, adminUserId, adminNotes)
    \/ \E userId \in UserIds : deleteUser(userId)

Spec == Init /\ [][Next]_vars

\* user management: signups of a customer and of the administrator, one
\* doctor's registration and its approval, and the three management calls
UserNext ==
    \/ createUser(Customer)
    \/ createUser(Administrator)
    \/ createPendingRegistration(DoctorRegistration("u2", "e2", <<"L1">>))
    \/ \E pendingId \in 1..MaxId, adminUserId \in ReviewerIds :
           approvePendingRegistration(pendingId, adminUserId, <<>>)
    \/ \E userId \in UserIds : suspendUser(userId)
    \/ \E userId \in UserIds : reactivateUser(userId)
    \/ \E userId \in UserIds : deleteUser(userId)

UserSpec == Init /\ [][UserNext]_vars

\* the profiles: a customer's signup, Patient and Doctor profiles made
\* directly, one doctor's registration and its approval, and deletions
ProfileNext ==
    \/ createUser(Customer)
    \/ \E userId \in UserIds : createPatient(Patient(userId))
    \/ createDoctorCall(Doctor(2))
    \/ createPendingRegistration(DoctorRegistration("u2", "e2", <<"L1">>))
    \/ \E pendingId \in 1..MaxId, adminUserId \in ReviewerIds :
           approvePendingRegistration(pendingId, adminUserId, <<>>)
    \/ \E userId \in UserIds : deleteUser(userId)

ProfileSpec == Init /\ [][ProfileNext]_vars

\* persistence: the file may be one that cannot be written (a read-only
\* file, a full disk), and every mutating operation saves to it
PersistInit ==
    /\ users = {}
    /\ doctors = {}
    /\ pending = {}
    /\ patients = {}
    /\ seq = [users |-> 0, doctors |-> 0, pending |-> 0, patients |-> 0]
    /\ disk = Image({}, {}, {}, {}, seq)
    /\ patientsTable \in BOOLEAN
    /\ last = Returned("initDatabase", "none", 0)
    /\ res = NoResponse
    /\ writable \in BOOLEAN
    /\ journal = <<>>
    /\ view = Unmounted
    /\ filterCall = NoCall

PersistNext ==
    \/ createUser(Customer)
    \/ createPendingRegistration(DoctorRegistration("u2", "e2", <<"L1">>))
    \/ \E pendingId \in 1..MaxId, adminUserId \in ReviewerIds :
           approvePendingRegistration(pendingId, adminUserId, <<"ok">>)
    \/ \E pendingId \in 1..MaxId, adminUserId \in ReviewerIds :
           rejectPendingRegistration(pendingId, adminUserId, "no licence")
    \/ \E userId \in UserIds : suspendUser(userId)
    \/ \E userId \in UserIds : deleteUser(userId)

PersistSpec == PersistInit /\ [][PersistNext]_vars

\* the patients directory: signups, profiles, deletions and the listing
DirectoryNext ==
    \/ createUser(Customer)
    \/ createUser(Administrator)
    \/ \E userId \in UserIds : createPatient(Patient(userId))
    \/ \E userId \in UserIds : deleteUser(userId)
    \/ \E req \in Requests : handleGetPatients(req)

DirectorySpec == Init /\ [][DirectoryNext]_vars

-----------------------------------------------------------------------------
(* Steps of the registration workflow, for the properties below *)

PendingIds == 1..MaxId

HasRow(id) == \E r \in pending : r.id = id
RowOf(id) == CHOOSE r \in pending : r.id = id

ApproveStep(id) ==
    /\ last'.op = "approvePendingRegistration"
    /\ \E adminUserId \in ReviewerIds, adminNotes \in ApproveNotes :
           approvePendingRegistration(id, adminUserId, adminNotes)

RejectStep(id) ==
    /\ last'.op = "rejectPendingRegistration"
    /\ \E adminUserId \in ReviewerIds, adminNotes \in RejectNotes :
           rejectPendingRegistration(id, adminUserId, adminNotes)

-----------------------------------------------------------------------------
(* C1: a second approvePendingRegistration on a registration that is      *)
(* already approved fails with AlreadyDecided and adds no User.            *)
C1_SecondApproveAlreadyDecided ==
    [][\A id \in PendingIds :
          (ApproveStep(id) /\ HasRow(id) /\ RowOf(id).status = "approved")
          => (last'.thrown = "AlreadyDecided" /\ users' = users)]_vars

(* C2: a registration that is approved or rejected is never changed again: *)
(* its status, approved_by and admin_notes stay as the decision set them.   *)
C2_DecidedRowsNeverChange ==
    [][\A r \in pending :
          r.status \in {"approved", "rejected"}
          => \E r2 \in pending' :
                 /\ r2.id = r.id
                 /\ r2.status = r.status
                 /\ r2.approved_by = r.approved_by
                 /\ r2.admin_notes = r.admin_notes]_vars

(* C3: approvePendingRegistration is all-or-nothing: it returns and has    *)
(* added one User, one Doctor for a doctor, and set status approved, or it *)
(* throws and users, doctors and pending_registrations are as before.      *)
C3_ApproveAllOrNothing ==
    [][\A id \in PendingIds :
          ApproveStep(id)
          => \/ /\ last'.thrown = "none"
                /\ Cardinality(users' \ users) = 1
                /\ users \subseteq users'
                /\ Cardinality(doctors' \ doctors) =
                       (IF RowOf(id).role = "doctor" THEN 1 ELSE 0)
                /\ \E r \in pending' : r.id = id /\ r.status = "approved"
             \/ /\ last'.thrown # "none"
                /\ UNCHANGED <<users, doctors, pending>>]_vars

(* C4: approvePendingRegistration on a rejected registration fails with    *)
(* AlreadyDecided and creates no User and no Doctor profile.               *)
C4_ApproveRejectedFails ==
    [][\A id \in PendingIds :
          (ApproveStep(id) /\ HasRow(id) /\ RowOf(id).status = "rejected")
          => /\ last'.thrown = "AlreadyDecided"
             /\ UNCHANGED <<users, doctors>>]_vars

(* C5: approvePendingRegistration with an id that matches no row throws    *)
(* the not-found error and leaves users, doctors and pending_registrations *)
(* unchanged.                                                               *)
C5_ApproveUnknownIdNotFound ==
    [][\A id \in PendingIds :
          (ApproveStep(id) /\ ~HasRow(id))
          => /\ last'.op = "approvePendingRegistration"
             /\ last'.thrown = "Pending registration not found"
             /\ last'.returned = "none"
             /\ UNCHANGED <<users, doctors, pending>>]_vars

\* an approve of an id that is not in the table, while other rows are
C5_Witness ==
    /\ last.op = "approvePendingRegistration"
    /\ last.thrown = "Pending registration not found"
    /\ pending # {}

(* C6: rejectPendingRegistration on an id that matches no row, or on a row *)
(* that is not pending, does not report success and changes no row.        *)
C6_RejectUnknownOrDecidedFails ==
    [][\A id \in PendingIds :
          (RejectStep(id) /\ (~HasRow(id) \/ RowOf(id).status # "pending"))
          => /\ last'.returned # "true"
             /\ last'.thrown \in {"NotFound", "AlreadyDecided"}
             /\ pending' = pending]_vars

(* C7: rejectPendingRegistration leaves users and doctors unchanged; of a  *)
(* pending row with the given id it sets status to rejected, approved_by   *)
(* and admin_notes to its arguments and nothing else; every other row of   *)
(* pending_registrations is unchanged and no row is added or removed.      *)
C7_RejectFrame ==
    [][\A id \in PendingIds, adminUserId \in ReviewerIds,
          adminNotes \in RejectNotes :
          (/\ last'.op = "rejectPendingRegistration"
           /\ rejectPendingRegistration(id, adminUserId, adminNotes))
          => /\ UNCHANGED <<users, doctors>>
             /\ {r.id : r \in pending'} = {r.id : r \in pending}
             /\ Cardinality(pending') = Cardinality(pending)
             /\ \A r \in pending :
                    IF r.id = id /\ r.status = "pending"
                    THEN \E r2 \in pending' :
                             /\ r2.status = "rejected"
                             /\ r2.approved_by = <<adminUserId>>
                             /\ r2.admin_notes = <<adminNotes>>
                             /\ [r2 EXCEPT !.status = r.status,
                                           !.approved_by = r.approved_by,
                                           !.admin_notes = r.admin_notes] = r
                    ELSE r.id # id => r \in pending']_vars

\* a registration has been rejected while another one is still pending
C7_Witness ==
    /\ last.op = "rejectPendingRegistration"
    /\ \E r \in pending : r.status = "rejected"
    /\ \E r \in pending : r.status = "pending"

(* C8: rejectPendingRegistration with empty adminNotes fails validation    *)
(* and leaves the registration pending.                                    *)
C8_RejectEmptyNotesFails ==
    [][\A id \in PendingIds, adminUserId \in ReviewerIds :
          (/\ last'.op = "rejectPendingRegistration"
           /\ HasRow(id) /\ RowOf(id).status = "pending"
           /\ rejectPendingRegistration(id, adminUserId, ""))
          => /\ last'.returned # "true"
             /\ \E r \in pending' : r.id = id /\ r.status = "pending"]_vars

\* a password hashed exactly once
HashedOnce(p) == Len(p) = 2 /\ p[1] = "bcrypt" /\ p[2] # "bcrypt"

(* C9: a submission whose email and username no User and no registration   *)
(* uses adds one pending row with the submitted identity and the password  *)
(* hashed once; approving a pending row whose email and username no User   *)
(* uses adds exactly one User with the row's role, username, email and     *)
(* full_name and with exactly the row's stored hash as its password.       *)
C9_SubmitThenApproveOneUser ==
    [][/\ \A reg \in Registrations :
             (/\ last'.op = "createPendingRegistration"
              /\ createPendingRegistration(reg)
              /\ \A r \in pending :
                     r.email # reg.email /\ r.username # reg.username
              /\ \A u \in users :
                     u.email # reg.email /\ u.username # reg.username)
             => /\ pending \subseteq pending'
                /\ Cardinality(pending' \ pending) = 1
                /\ \A r \in pending' \ pending :
                       /\ r.status = "pending"
                       /\ r.username = reg.username
                       /\ r.email = reg.email
                       /\ r.role = reg.role
                       /\ r.full_name = reg.full_name
                       /\ r.password = <<"bcrypt">> \o reg.password
                       /\ r.password # reg.password
       /\ \A id \in PendingIds :
             (/\ ApproveStep(id)
              /\ HasRow(id) /\ RowOf(id).status = "pending"
              /\ \A u \in users : u.email # RowOf(id).email
                                  /\ u.username # RowOf(id).username)
             => /\ users \subseteq users'
                /\ Cardinality(users' \ users) = 1
                /\ \A u \in users' \ users :
                       /\ u.role = RowOf(id).role
                       /\ u.username = RowOf(id).username
                       /\ u.email = RowOf(id).email
                       /\ u.full_name = RowOf(id).full_name
                       /\ u.password = RowOf(id).password
                       /\ HashedOnce(u.password)]_vars

\* an approval has made the User of a submitted registration
C9_Witness ==
    /\ last.op = "approvePendingRegistration"
    /\ last.returned = "true"
    /\ \E r \in pending, u \in users :
           /\ r.status = "approved"
           /\ u.email = r.email /\ u.username = r.username
           /\ u.password = r.password

(* C10: an approvePendingRegistration that returns adds, for a doctor,     *)
(* exactly one doctors row, whose user_id is the id of the User it added   *)
(* and whose fields are the staged ones; for staff it leaves doctors as is. *)
C10_DoctorProfileIffDoctor ==
    [][\A id \in PendingIds :
          (ApproveStep(id) /\ last'.returned = "true")
          => IF RowOf(id).role = "doctor"
             THEN /\ doctors \subseteq doctors'
                  /\ Cardinality(doctors' \ doctors) = 1
                  /\ \A d \in doctors' \ doctors :
                         /\ \E u \in users' \ users : d.user_id = u.id
                         /\ d.specialization = RowOf(id).specialization
                         /\ d.license_number = RowOf(id).license_number
                         /\ d.experience_years = RowOf(id).experience_years
                         /\ d.consultation_fee = RowOf(id).consultation_fee
                         /\ d.available_days = RowOf(id).available_days
                         /\ d.available_time_start =
                                RowOf(id).available_time_start
                         /\ d.available_time_end = RowOf(id).available_time_end
             ELSE doctors' = doctors]_vars

\* a doctor and a staff member have both been approved
C10_Witness ==
    /\ last.op = "approvePendingRegistration"
    /\ last.returned = "true"
    /\ \E r \in pending, d \in doctors, u \in users :
           /\ r.status = "approved" /\ r.role = "doctor"
           /\ u.email = r.email /\ d.user_id = u.id
           /\ d.license_number = r.license_number
    /\ \E r \in pending, u \in users :
           /\ r.status = "approved" /\ r.role = "staff"
           /\ u.email = r.email /\ u.role = "staff"
           /\ \A d \in doctors : d.user_id # u.id

(* C11: every registration that is approved or rejected has an approved_by  *)
(* that is the id of an existing User with role admin.                      *)
C11_DecidedByExistingAdmin ==
    \A r \in pending :
        r.status \in {"approved", "rejected"}
        => \E u \in users : r.approved_by = <<u.id>> /\ u.role = "admin"

(* C12: an approvePendingRegistration that succeeds returns a number, the   *)
(* id of the users row it has just inserted.                                *)
C12_ApproveReturnsUserId ==
    [][\A id \in PendingIds :
          (ApproveStep(id) /\ last'.thrown = "none")
          => /\ last'.returned = "number"
             /\ \E u \in users' \ users : u.id = last'.value]_vars

(* C13: createPendingRegistration with an email that a User holds, or that *)
(* a registration in status pending holds, throws and inserts no row.      *)
C13_SubmitDuplicateEmailFails ==
    [][\A reg \in Registrations :
          (/\ last'.op = "createPendingRegistration"
           /\ createPendingRegistration(reg)
           /\ \/ \E u \in users : u.email = reg.email
              \/ \E r \in pending : r.email = reg.email /\ r.status = "pending")
          => /\ last'.thrown # "none"
             /\ pending' = pending]_vars

(* C14: no two users rows share an email, none share a username, and none  *)
(* share a phone that is not NULL.                                         *)
C14_UniqueIdentity ==
    \A u1, u2 \in users :
        u1 # u2
        => /\ u1.email # u2.email
           /\ u1.username # u2.username
           /\ (u1.phone = NULL \/ u1.phone # u2.phone)

(* C15: no call of suspendUser, reactivateUser or deleteUser changes or    *)
(* removes the row of a User whose role is admin.                          *)
C15_AdminImmutable ==
    [][\A userId \in UserIds :
          (/\ last'.op \in {"suspendUser", "reactivateUser", "deleteUser"}
           /\ \/ suspendUser(userId)
              \/ reactivateUser(userId)
              \/ deleteUser(userId))
          => \A u \in users : u.role = "admin" => u \in users']_vars

\* deleteUser has refused the administrator's id: with table patients in
\* the file that is its only failure
C15_Witness ==
    /\ last.op = "deleteUser"
    /\ last.returned = "false"
    /\ patientsTable
    /\ \E u \in users : u.role = "admin" /\ u.id \in UserIds
                        /\ u.status = "active"

(* C16: when deleteUser removes the users row of its argument, no doctors  *)
(* row and no patients row with that user_id is left: the profile rows go  *)
(* first, so a call that fails on them has not removed the User.           *)
C16_DeleteCascades ==
    [][\A userId \in UserIds :
          (/\ last'.op = "deleteUser"
           /\ deleteUser(userId)
           /\ \E u \in users : u.id = userId
           /\ ~\E u \in users' : u.id = userId)
          => /\ \A d \in doctors' : d.user_id # userId
             /\ \A p \in patients' : p.user_id # userId]_vars

\* User 2 has been deleted with its profiles, User 1 and its Patient
\* profile are still there
C16_Witness ==
    /\ last.op = "deleteUser"
    /\ last.returned = "true"
    /\ seq.users >= 2
    /\ ~\E u \in users : u.id = 2
    /\ \E u \in users : u.id = 1
    /\ seq.doctors >= 1 /\ doctors = {}
    /\ seq.patients >= 2
    /\ \E p \in patients : p.user_id = 1
    /\ ~\E p \in patients : p.user_id = 2

(* C17: every doctors row and every patients row has the user_id of an     *)
(* existing users row.                                                     *)
C17_ProfilesReferToUsers ==
    /\ \A d \in doctors : \E u \in users : u.id = d.user_id
    /\ \A p \in patients : \E u \in users : u.id = p.user_id

(* C18: an approve and a reject issued together run to completion one     *)
(* after the other, in either order; only the first takes effect: the      *)
(* second, finding the row decided by the other call, throws               *)
(* AlreadyDecided and leaves status, approved_by and admin_notes alone.    *)
C18_FirstTransitionWins ==
    [][\A id \in PendingIds :
          (/\ HasRow(id)
           /\ \/ ApproveStep(id) /\ RowOf(id).status = "rejected"
              \/ RejectStep(id) /\ RowOf(id).status = "approved")
          => /\ last'.thrown = "AlreadyDecided"
             /\ \E r2 \in pending' :
                    /\ r2.id = id
                    /\ r2.status = RowOf(id).status
                    /\ r2.approved_by = RowOf(id).approved_by
                    /\ r2.admin_notes = RowOf(id).admin_notes]_vars

-----------------------------------------------------------------------------
(* The patients listing endpoint *)

Authorized(req) ==
    req.user # <<>> /\ req.user[1].role \in {"doctor", "admin"}

(* C19: a request of an authenticated user whose role is neither doctor    *)
(* nor admin is answered 403 with no list in the body and without a call   *)
(* of getAllPatients; a response that carries the list answers a request   *)
(* of role doctor or admin.                                                *)
C19_ListOnlyForDoctorAndAdmin ==
    [][\A req \in Requests :
          handleGetPatients(req)
          => /\ (req.user # <<>> /\ ~Authorized(req))
                => /\ res'.status = 403
                   /\ DOMAIN res'.body = {"error"}
                   /\ last' = last
             /\ "patients" \in DOMAIN res'.body => Authorized(req)]_vars

\* a request has been refused right after a list of at least one Patient
\* was served: the store's last call is still that query
C19_Witness ==
    /\ res.status = 403
    /\ patientsTable
    /\ \E p \in patients, u \in users : u.id = p.user_id
    /\ last.op = "getAllPatients"
    /\ last.value >= 1

(* C20: when the query of getAllPatients raises an error (the file has no  *)
(* table patients), a request of role doctor or admin is answered 500 with *)
(* the generic error body, not 200.                                        *)
C20_QueryFailureAnswers500 ==
    [][\A req \in Requests :
          (handleGetPatients(req) /\ Authorized(req) /\ ~patientsTable)
          => /\ res'.status = 500
             /\ DOMAIN res'.body = {"error"}]_vars

-----------------------------------------------------------------------------
(* Persistence *)

MutatingOperations ==
    {"createUser", "createPendingRegistration", "approvePendingRegistration",
     "rejectPendingRegistration", "suspendUser", "deleteUser"}

(* C22: where the file cannot be written, a mutating operation that has    *)
(* called saveDatabase does not return a success value: it throws or       *)
(* returns false.                                                          *)
C22_WriteFailureIsReported ==
    [][(~writable /\ last'.op \in MutatingOperations)
       => last'.returned \notin {"true", "number"}]_vars

(* C23: an approvePendingRegistration that returns has written the file    *)
(* once, and no image it wrote holds a User it made whose registration is  *)
(* not yet approved in that image.                                         *)
C23_ApproveWritesOnceAtEnd ==
    [][\A id \in PendingIds :
          (ApproveStep(id) /\ last'.returned = "true")
          => /\ Len(journal') = 1
             /\ \A i \in DOMAIN journal' :
                    \A u \in journal'[i].users \ users :
                        \E r \in journal'[i].pending :
                            r.id = id /\ r.status = "approved"]_vars

(* C30: deleteUser on the id of an existing User whose role is not admin  *)
(* returns true and leaves no users row with that id; a deleteUser that    *)
(* returns false has deleted nothing.                                      *)
C30_DeleteExistingUserSucceeds ==
    [][\A userId \in UserIds :
          (last'.op = "deleteUser" /\ deleteUser(userId))
          => /\ (\E u \in users : u.id = userId /\ u.role # "admin")
                => /\ last'.returned = "true"
                   /\ ~\E u \in users' : u.id = userId
             /\ last'.returned = "false"
                => UNCHANGED <<users, doctors, patients>>]_vars

-----------------------------------------------------------------------------
(* The filter of the directory page *)

\* the filter has been evaluated with exactly this option set, all others
\* being "all"
OnlyOption(key, value) ==
    /\ filterCall.evaluated
    /\ filterCall.filters = [AllFilters EXCEPT ![key] = value]

\* the age in whole years on the day `today` of someone born on `birth`,
\* or 0 where no date of birth is recorded
AgeOn(today, date_of_birth) ==
    IF date_of_birth = <<>> THEN 0
    ELSE calculateAge(today, date_of_birth[1])

\* the record satisfies every predicate that the search term and the filter
\* specification make active
SatisfiesAll(patient, searchTerm, filters) ==
    /\ matchesSearch(patient, searchTerm)
    /\ filters.gender # "all" => patient.gender = <<filters.gender>>
    /\ filters.bloodGroup # "all"
       => patient.blood_group = <<filters.bloodGroup>>
    /\ InAgeRange(AgeOn(Now.today, patient.date_of_birth), filters.ageRange)
    /\ filters.hasConditions = "yes" => hasConditions(patient)
    /\ filters.hasConditions = "no" => ~hasConditions(patient)
    /\ InRegistrationPeriod(diffDays(Now.time, patient.created_at),
                            filters.registrationPeriod)

(* C24: for every list, search term and filter specification the filtered  *)
(* result is the subsequence of the list, in its order, of exactly the     *)
(* records that satisfy every active predicate.                            *)
C24_FilteredIsTheSatisfyingSubsequence ==
    filterCall.evaluated
    => LET Satisfies(patient) ==
               SatisfiesAll(patient, filterCall.searchTerm,
                            filterCall.filters)
       IN  /\ filterCall.result.thrown = "none"
           /\ filterCall.result.value = SelectSeq(filterCall.list, Satisfies)

C26_EighteenYearsBoundary ==
    LET Born(year, month, date) ==
            <<[BaseProfile EXCEPT !.date_of_birth =
                   <<[year |-> year, month |-> month, date |-> date]>>]>>
    IN  /\ (OnlyOption("ageRange", "0-18")
            /\ filterCall.list = Born(Now.today.year - 18, Now.today.month,
                                      Now.today.date))
           => filterCall.result.value = filterCall.list
        /\ (OnlyOption("ageRange", "19-30")
            /\ filterCall.list = Born(Now.today.year - 18, Now.today.month,
                                      Now.today.date - 1))
           => filterCall.result.value = filterCall.list

WiderPeriods(period) ==
    CASE period = "last-week" -> {"last-month", "last-3-months", "last-year"}
      [] period = "last-month" -> {"last-3-months", "last-year"}
      [] period = "last-3-months" -> {"last-year"}
      [] OTHER -> {}

(* C28: the registration periods are nested: a record kept under one       *)
(* period is kept, all other inputs being the same, under every wider      *)
(* period (last-week, last-month, last-3-months, last-year).               *)
C28_RegistrationPeriodsAreNested ==
    (filterCall.evaluated /\ filterCall.result.thrown = "none")
    => \A i \in DOMAIN filterCall.result.value :
           \A wider \in WiderPeriods(filterCall.filters.registrationPeriod) :
               callback(filterCall.result.value[i], filterCall.searchTerm,
                        [filterCall.filters
                            EXCEPT !.registrationPeriod = wider],
                        Now) = "true"

\* a record has been kept under "last-week"
C28_Witness ==
    /\ filterCall.evaluated
    /\ filterCall.filters.registrationPeriod = "last-week"
    /\ filterCall.result.value # <<>>

-----------------------------------------------------------------------------
(* The directory page and the listing endpoint *)

\* the list in the body of a listing response, under whichever key
ServedList(body) ==
    IF "customers" \in DOMAIN body THEN body.customers ELSE body.patients

(* C21: after a successful fetch of a listing response (status 200) the    *)
(* client's directory list equals the list the server put in the response, *)
(* which it reads under the key 'customers'.                               *)
C21_ClientListIsServedList ==
    res.status = 200
    => fetchCustomers(InitialState, [kind |-> "ok", body |-> res.body]).customers
           = ServedList(res.body)

(* C29: once the page is opened, every outcome of the fetch leaves the     *)
(* view out of the loading state; after a failed fetch the list is empty   *)
(* and the empty-state message is shown, and no error is stored in the     *)
(* view state.                                                             *)
C29_ViewLeavesLoading ==
    view.phase # "unmounted"
    => /\ view.thrown = "none"
       /\ view.shows = "spinner"
       /\ \A outcome \in FetchOutcomes({res.body}) :
              LET after == fetchCustomers(InitialState, outcome)
                  shown == CustomersManagement(after)
              IN  /\ ~after.loading
                  /\ DOMAIN after = DOMAIN InitialState
                  /\ shown.thrown = "none"
                  /\ shown.shows # "spinner"
                  /\ outcome.kind # "ok"
                     => /\ after.customers = <<>>
                        /\ shown.shows = "No patients found"

=============================================================================
